---- MODULE Spec2Model ----
(***************************************************************************)
(* Model of the parameter-synchronisation layer of scrunked (index.tsx):   *)
(* the Settings record, the throttle gate in front of it, the waveform     *)
(* widget effect, the Synchronization Effect (syncPlayerSettings) with its *)
(* suspended file loads, and the play/pause toggle.                        *)
(*                                                                         *)
(* Scheduling.  The page is single threaded.  A state update (set,         *)
(* setWaveform, the throttle's own state) schedules a re-render, which     *)
(* runs before the next event is handled; the effects of a render run with *)
(* the values that render saw.  The model therefore has one action per     *)
(* event handler, and one action Render that is the only enabled step      *)
(* while a re-render is pending.  Render runs the three effects of App in  *)
(* their declaration order.                                                *)
(*                                                                         *)
(* Time is counted in ticks; the 250 ms throttle window is WindowTicks     *)
(* ticks long.  A speed of 1.0 is written 100 (hundredths).                *)
(***************************************************************************)
EXTENDS Integers, Sequences, FiniteSets, TLC

\* ------------------------------------------------------------------ bounds
WindowTicks == 2
MaxInFlight == 2
MaxUserEvents == 3
MaxGap == 2

\* ------------------------------------------------------------ value domains
None == "none"
NoDuration == -1
FILTER_MAX == 22000
Files == {"A", "B"}
SpeedChoices == {50}

\* player.buffer.duration of a decoded file, in seconds
BufferDuration(f) == CASE f = "A" -> 3 [] f = "B" -> 5 [] OTHER -> 0

\* ------------------------------------------------------------ lib.ts
\* Numbers.  Math.pow is taken exactly, without floating-point rounding: a
\* non-negative real is written base^(num/den) with base a whole number, so a
\* whole number v is v^(1/1).
Number(v) == [base |-> v, num |-> 1, den |-> 1]

RECURSIVE GCD(_, _)
GCD(a, b) == IF b = 0 THEN a ELSE GCD(b, a % b)

RECURSIVE IntPow(_, _)
IntPow(b, k) == IF k = 0 THEN 1 ELSE b * IntPow(b, k - 1)

\* x < y for non-negative x and y: both are raised to the same positive power
\* (the product of the exponents' denominators, divided by what is common)
Less(x, y) ==
  LET m == x.num * y.den
      n == y.num * x.den
      g == GCD(m, n)
  IN IntPow(x.base, m \div g) < IntPow(y.base, n \div g)

\* const SCALE_POWER = 2.5, as the fraction 5/2
SCALE_POWER == [num |-> 5, den |-> 2]

\* the division is a whole-number division: 1 / 2.5 gives 0
Reciprocal_Truncated(e) == [num |-> 0, den |-> 1]

\* 1 / e
Reciprocal(e) == [num |-> e.den, den |-> e.num]

\* Math.abs(x)
abs(x) == [x EXCEPT !.base = IF x.base < 0 THEN 0 - x.base ELSE x.base]

\* Math.pow(x, e) for x >= 0 and a fraction e >= 0:
\* (b^(n/d))^e = b^((n * e.num) / (d * e.den)), the exponent in lowest terms;
\* the power 0 of every number is 1, and every other power of 0 is 0 and of 1 is 1
pow(x, e) ==
  IF e.num = 0 THEN Number(1)
  ELSE IF x.base \in {0, 1} THEN Number(x.base)
  ELSE LET n == x.num * e.num
           d == x.den * e.den
           g == GCD(n, d)
       IN [base |-> x.base, num |-> n \div g, den |-> d \div g]

\* the exponent is SCALE_POWER itself
getScaleValue_Inverted(value) == pow(abs(value), SCALE_POWER)

\* Math.pow(Math.abs(value), 1 / SCALE_POWER)
getScaleValue(value) == pow(abs(value), Reciprocal(SCALE_POWER))

\* Math.pow(value, SCALE_POWER)
getValueFromScale(value) == pow(value, SCALE_POWER)

\* Math.round(n / d) for whole n >= 0 and d > 0: a half rounds up
Round(n, d) == (2 * n + d) \div (2 * d)

Digit(d) ==
  CASE d = 0 -> "0" [] d = 1 -> "1" [] d = 2 -> "2" [] d = 3 -> "3" [] d = 4 -> "4"
    [] d = 5 -> "5" [] d = 6 -> "6" [] d = 7 -> "7" [] d = 8 -> "8" [] d = 9 -> "9"

\* the characters a whole number n >= 0 is printed with
RECURSIVE Decimal(_)
Decimal(n) == IF n < 10 THEN <<Digit(n)>> ELSE Append(Decimal(n \div 10), Digit(n % 10))

\* the characters the number tenths / 10 is printed with: JavaScript prints
\* no decimal point when the number is whole
DecimalTenths(tenths) ==
  IF tenths % 10 = 0 THEN Decimal(tenths \div 10)
  ELSE Decimal(tenths \div 10) \o <<".", Digit(tenths % 10)>>

\* the tenth is always printed
humanFormat_Fixed(value) ==
  IF value > 9999 THEN [type |-> "string", text |-> Decimal(Round(value, 1000)) \o <<"K">>]
  ELSE IF value > 999
       THEN [type |-> "string",
             text |-> Decimal(Round(value, 100) \div 10)
                        \o <<".", Digit(Round(value, 100) % 10), "K">>]
  ELSE [type |-> "number", text |-> Decimal(Round(value, 1))]

\* humanFormat(value) for a whole value >= 0; the result is a string or a
\* number, given by its type and the characters it is printed with
\*   if (value > 9999) return `${Math.round(value / 1000)}K`
\*   if (value > 999) return `${Math.round(value / 100) / 10}K`
\*   return Math.round(value)
humanFormat(value) ==
  IF value > 9999 THEN [type |-> "string", text |-> Decimal(Round(value, 1000)) \o <<"K">>]
  ELSE IF value > 999
       THEN [type |-> "string", text |-> DecimalTenths(Round(value, 100)) \o <<"K">>]
  ELSE [type |-> "number", text |-> Decimal(Round(value, 1))]

\* the Filter slider: min={1}, max={filterCutoffMarks[last].value}
FilterSliderMin == Number(1)

FilterSliderMax == getScaleValue(Number(FILTER_MAX))

\* the positions of the Filter slider the model drags it to: its two ends
SliderChoices == {FilterSliderMin, FilterSliderMax}

VARIABLES
  settings,           \* useState<Settings>
  throttledIsCurrent, \* throttledSettings, the value exposed by
                      \* useThrottle(settings, 250), is the object held in settings
  timer,              \* ticks left on the throttle's timer, -1 when none
  waveformRef,        \* waveformRef.current is an element
  waveformDep,        \* [waveformRef.current] as last seen by the waveform effect
  waveform,           \* number of WaveSurfer instances created; 0 is undefined
  waveBlob,           \* file handed to waveform.loadBlob
  player,             \* Tone.Player: transport state, buffer, playbackRate, loop
  filterFrequency,    \* Tone.Filter frequency
  chained,            \* number of player.chain calls
  inflight,           \* suspended syncPlayerSettings invocations awaiting player.load
  userEvents,         \* number of UI events handled so far
  pending,            \* what the scheduled re-render will find changed
  last,               \* the step just taken: handler, invocation, engine calls
  lastPicked,         \* file of the latest file pick
  failedFile,         \* file whose load failed since the latest file pick
  sinceInvoke,        \* ticks since the previous syncPlayerSettings invocation
  synced,             \* the latest invocation saw the Settings object now current
  throttledSettings,  \* the record exposed by useThrottle(settings, 250)
  rendered,           \* the settings record of the latest render, which the
                      \* handlers created by that render close over
  playbackState,      \* useState<PlaybackState> of index.tsx: the displayed
                      \* transport state and position
  lib,                \* an application of a lib.ts function: input and result
  superseded          \* for each suspended invocation: the engine has since
                      \* received the parameters of a later Settings version

vars == <<settings, throttledIsCurrent, timer, waveformRef,
          waveformDep, waveform, waveBlob, player, filterFrequency, chained,
          inflight, userEvents, pending, last, lastPicked, failedFile, sinceInvoke,
          synced, throttledSettings, rendered, playbackState, lib, superseded>>

\* ------------------------------------------------------------ Settings
\* useState<Settings>({...}): the record App starts with
InitialSettings ==
  [filterCutoff |-> Number(FILTER_MAX), speed |-> 100, loop |-> TRUE, file |-> None,
   duration |-> NoDuration, nextFile |-> None, state |-> "init"]

\* mergeSettings(next)(state) = {...state, ...next}
mergeSettings(next, state) ==
  [k \in DOMAIN state |-> IF k \in DOMAIN next THEN next[k] ELSE state[k]]

\* the update keeps the old lifecycle flag
ReadyUpdate_Forgotten(prev) == prev

\* set((prev) => ({...prev, state: "ready"}))
ReadyUpdate(prev) == [prev EXCEPT !.state = "ready"]

\* the handler spreads the record of the first render
LoopUpdate_Stale(closed, checked) == [InitialSettings EXCEPT !.loop = checked]

\* the handler spreads the throttled copy
LoopUpdate_Throttled(closed, checked) == [throttledSettings EXCEPT !.loop = checked]

\* set({...settings, loop: evt.currentTarget.checked}), settings being the
\* record the handler closed over: that of the render it belongs to
LoopUpdate(closed, checked) == [closed EXCEPT !.loop = checked]

\* the merge does not clear nextFile
LoadedUpdate_KeepsNext(snap, bufferDuration) ==
  [file |-> snap.nextFile, duration |-> bufferDuration]

\* the merge spreads the whole record the invocation closed over
LoadedUpdate_Spread(snap, bufferDuration) ==
  [file |-> snap.nextFile, nextFile |-> None, duration |-> bufferDuration,
   filterCutoff |-> snap.filterCutoff, speed |-> snap.speed, loop |-> snap.loop,
   state |-> snap.state]

\* {file: settings.nextFile, nextFile: undefined, duration: player.buffer.duration}
LoadedUpdate(snap, bufferDuration) ==
  [file |-> snap.nextFile, nextFile |-> None, duration |-> bufferDuration]

\* {settings.file || settings.nextFile ? <>...<Box ref={waveformRef}>...</> : null}
ContainerRendered(s) == s.file # None \/ s.nextFile # None

\* the fields syncPlayerSettings reads of the settings record it closed over
Closure(s) ==
  [state |-> s.state, nextFile |-> s.nextFile, filterCutoff |-> s.filterCutoff,
   speed |-> s.speed, loop |-> s.loop]

\* ------------------------------------------------------------ rendering
RenderPending ==
  pending.first \/ pending.settings \/ pending.throttled \/ pending.waveform

NothingPending ==
  [first |-> FALSE, settings |-> FALSE, throttled |-> FALSE, waveform |-> FALSE]

\* the step record of a handler that runs no syncPlayerSettings code
Quiet(op) ==
  [op |-> op, invoked |-> FALSE, snap |-> Closure(InitialSettings), calls |-> <<>>,
   gap |-> -1, arg |-> None, threw |-> FALSE, twice |-> FALSE, stale |-> FALSE]

\* throttledSettings is missing from the dependency list
SyncDepsChanged_NoThrottle(p) == p.first \/ p.waveform

\* useEffect(..., [throttledSettings, waveform]): the effect runs on the first
\* render and whenever one of the two dependencies is a new object
SyncDepsChanged(p) == p.first \/ p.throttled \/ p.waveform

\* useEffect(..., [waveformRef.current]): the dependency is read while
\* rendering, before the commit attaches the ref
WaveformDepsChanged(p, refAtRender) == p.first \/ refAtRender # waveformDep

\* the branch syncPlayerSettings takes for the settings its render saw
SyncBranch(s) ==
  IF s.state = "init" THEN "init"
  ELSE IF s.nextFile # None THEN "load"
  ELSE "push"

\* the engine and widget calls syncPlayerSettings makes before it returns or
\* suspends at await player.load(url)
SyncCalls(s, w) ==
  CASE SyncBranch(s) = "init" -> <<"player.chain">>
    [] SyncBranch(s) = "load" ->
         (IF w > 0 THEN <<"waveform.loadBlob">> ELSE <<>>)
           \o <<"player.stop", "player.load">>
    [] OTHER -> <<"filter.set", "player.set">>

\* a rejection is swallowed and the code after the await runs anyway
Resumes_Always(resolved) == TRUE

\* await player.load(url): the code after the await runs only when the
\* promise resolves; a rejection leaves syncPlayerSettings there
Resumes(resolved) == resolved

\* the calls made after the await
ResumeCalls(resolved) ==
  IF Resumes(resolved) THEN <<"player.start", "filter.set", "player.set">> ELSE <<>>

\* a UI event is handled
UserEvent ==
  /\ ~RenderPending
  /\ userEvents < MaxUserEvents
  /\ userEvents' = userEvents + 1

Min(a, b) == IF a < b THEN a ELSE b

RemoveAt(q, i) == [j \in 1..(Len(q) - 1) |-> IF j < i THEN q[j] ELSE q[j + 1]]

\* the throttle gate sees its input change: the change opens a window of
\* WindowTicks unless one is already open
ThrottleInput(changed, t) == IF changed /\ t = -1 THEN WindowTicks ELSE t

\* index.tsx: useState<PlaybackState>({ state: "paused", time: 0 })
InitialPlaybackState == [state |-> "paused", time |-> 0]

\* readings of player.context.currentTime: 0 while the audio clock has not
\* advanced, 1 for any later reading
ClockReadings == {0, 1}

\* filter.set(...) and player.set(...) by an invocation that did not load:
\* its record has no nextFile, so it is a later version than the record of
\* every suspended invocation
SupersededByPush(flags) == [j \in DOMAIN flags |-> TRUE]

\* filter.set(...) and player.set(...) by the i-th suspended invocation as it
\* resumes: its record is a later version than every different record
\* captured before it (q is in the order the invocations started)
SupersededByResume(flags, q, i) ==
  [j \in DOMAIN flags |-> flags[j] \/ (j < i /\ q[j] # q[i])]

\* no lib.ts function is being applied
NoApplication == [op |-> "none"]

\* ------------------------------------------------------------ initial state
\* App has rendered once; its effects have not run yet
InitPage ==
  /\ settings = InitialSettings
  /\ throttledIsCurrent = TRUE
  /\ timer = -1
  /\ waveformRef = FALSE
  /\ waveformDep = FALSE
  /\ waveform = 0
  /\ waveBlob = None
  /\ player = [state |-> "stopped", buffer |-> None, playbackRate |-> 100, loop |-> FALSE]
  /\ filterFrequency = InitialSettings.filterCutoff
  /\ chained = 0
  /\ inflight = <<>>
  /\ userEvents = 0
  /\ pending = [NothingPending EXCEPT !.first = TRUE]
  /\ last = Quiet("Init")
  /\ lastPicked = None
  /\ failedFile = None
  /\ sinceInvoke = -1
  /\ synced = FALSE
  /\ throttledSettings = InitialSettings
  /\ rendered = InitialSettings
  /\ playbackState = InitialPlaybackState
  /\ superseded = <<>>

Init ==
  /\ InitPage
  /\ lib = NoApplication

\* ------------------------------------------------------------ render + effects
Render ==
  /\ RenderPending
  /\ LET s == settings
         w == waveform
         refAtRender == waveformRef
         refAfterCommit == ContainerRendered(s)
         runWaveform == WaveformDepsChanged(pending, refAtRender)
         createWf == runWaveform /\ refAfterCommit
         runSync == SyncDepsChanged(pending)
         branch == IF runSync THEN SyncBranch(s) ELSE "skip"
     IN
       /\ branch = "load" => Len(inflight) < MaxInFlight
       \* commit
       /\ waveformRef' = refAfterCommit
       \* throttle gate
       /\ timer' = ThrottleInput(pending.settings, timer)
       \* waveform effect
       /\ waveformDep' = IF runWaveform THEN refAtRender ELSE waveformDep
       /\ waveform' = IF createWf THEN waveform + 1 ELSE waveform
       /\ waveBlob' = IF createWf THEN None
                      ELSE IF branch = "load" /\ w > 0 THEN s.nextFile
                      ELSE waveBlob
       \* synchronization effect
       /\ chained' = IF branch = "init" THEN chained + 1 ELSE chained
       /\ settings' = IF branch = "init" THEN ReadyUpdate(settings) ELSE settings
       /\ throttledIsCurrent' = IF branch = "init" THEN FALSE ELSE throttledIsCurrent
       /\ player' = CASE branch = "load" -> [player EXCEPT !.state = "stopped"]
                      [] branch = "push" ->
                           [player EXCEPT !.playbackRate = s.speed, !.loop = s.loop]
                      [] OTHER -> player
       /\ filterFrequency' = IF branch = "push" THEN s.filterCutoff ELSE filterFrequency
       /\ inflight' = IF branch = "load" THEN Append(inflight, Closure(s)) ELSE inflight
       /\ pending' = [first |-> FALSE, settings |-> branch = "init",
                      throttled |-> FALSE, waveform |-> createWf]
       /\ last' = IF runSync
                  THEN [Quiet("Render") EXCEPT !.invoked = TRUE, !.snap = Closure(s),
                                               !.calls = SyncCalls(s, w),
                                               !.gap = sinceInvoke]
                  ELSE Quiet("Render")
       /\ sinceInvoke' = IF runSync THEN 0 ELSE sinceInvoke
       /\ synced' = IF branch = "init" THEN FALSE
                    ELSE IF runSync THEN TRUE ELSE synced
       /\ rendered' = s
       /\ superseded' = CASE branch = "load" -> Append(superseded, FALSE)
                          [] branch = "push" -> SupersededByPush(superseded)
                          [] OTHER -> superseded
       /\ UNCHANGED <<lastPicked, failedFile, userEvents, throttledSettings,
                      playbackState, lib>>

\* ------------------------------------------------------------ throttle gate
\* the window closes: the gate exposes the latest value, and the re-render it
\* schedules is the one whose effect run sees throttledSettings changed
TimerFire ==
  /\ ~RenderPending
  /\ timer = 0
  \* bound: with MaxInFlight loads unsettled the timer fires late
  /\ SyncBranch(settings) = "load" => Len(inflight) < MaxInFlight
  /\ timer' = -1
  /\ throttledIsCurrent' = TRUE
  /\ throttledSettings' = settings
  /\ pending' = [pending EXCEPT !.throttled = ~throttledIsCurrent]
  /\ last' = Quiet("TimerFire")
  /\ UNCHANGED <<settings, waveformRef, waveformDep, waveform, waveBlob, player,
                 filterFrequency, chained, inflight, userEvents, lastPicked,
                 failedFile, sinceInvoke, synced, rendered, playbackState, lib,
                 superseded>>

\* one tick of time passes; a due timer fires before time moves on
Tick ==
  /\ ~RenderPending
  /\ timer # 0
  /\ timer' = IF timer > 0 THEN timer - 1 ELSE timer
  /\ sinceInvoke' = IF sinceInvoke < 0 THEN sinceInvoke
                    ELSE Min(sinceInvoke + 1, WindowTicks)
  /\ last' = Quiet("Tick")
  /\ UNCHANGED <<settings, throttledIsCurrent, waveformRef,
                 waveformDep, waveform, waveBlob, player, filterFrequency, chained,
                 inflight, userEvents, pending, lastPicked, failedFile, synced,
                 throttledSettings, rendered, playbackState, lib, superseded>>

\* ------------------------------------------------------------ UI handlers
\* A handler runs only when no re-render is pending, so the settings record
\* its closure holds is the current one.
\* a call of set(...) with a new record
SetSettings(next, op) ==
  /\ settings' = next
  /\ throttledIsCurrent' = FALSE
  /\ pending' = [pending EXCEPT !.settings = TRUE]
  /\ synced' = FALSE
  /\ last' = Quiet(op)
  /\ UNCHANGED superseded

\* the guard passes although the event carries no file
MissingFile_Ignored(file) == FALSE

\* if (!file) throw new Error("missing file at upload time")
MissingFile(file) == file = None

\* the change event of the file input; file is onChange.currentTarget?.files?.[0],
\* None when the event carries no file
handleFileChange(file) ==
  /\ UserEvent
  /\ IF MissingFile(file)
     THEN /\ last' = [Quiet("handleFileChange") EXCEPT !.arg = file, !.threw = TRUE]
          /\ UNCHANGED <<settings, throttledIsCurrent, pending, synced, lastPicked,
                         failedFile>>
     ELSE /\ settings' = mergeSettings([nextFile |-> file], settings)
          /\ throttledIsCurrent' = FALSE
          /\ pending' = [pending EXCEPT !.settings = TRUE]
          /\ synced' = FALSE
          /\ last' = [Quiet("handleFileChange") EXCEPT !.arg = file]
          /\ lastPicked' = file
          /\ failedFile' = None
  /\ UNCHANGED <<timer, waveformRef, waveformDep, waveform,
                 waveBlob, player, filterFrequency, chained, inflight, sinceInvoke,
                 throttledSettings, rendered, playbackState, lib, superseded>>

\* the sliders and the checkbox are controlled (value={settings.speed},
\* value={getScaleValue(settings.filterCutoff)}, checked={settings.loop}):
\* onChange reports a value other than the one rendered
SpeedChange(value) ==
  /\ UserEvent
  /\ value # rendered.speed
  /\ SetSettings(mergeSettings([speed |-> value], settings), "SpeedChange")
  /\ UNCHANGED <<timer, waveformRef, waveformDep, waveform,
                 waveBlob, player, filterFrequency, chained, inflight, lastPicked,
                 failedFile, sinceInvoke, throttledSettings, rendered, playbackState,
                 lib>>

FilterChange(value) ==
  /\ UserEvent
  /\ value # getScaleValue(rendered.filterCutoff)
  /\ SetSettings(mergeSettings([filterCutoff |-> getValueFromScale(value)], settings),
                 "FilterChange")
  /\ UNCHANGED <<timer, waveformRef, waveformDep, waveform,
                 waveBlob, player, filterFrequency, chained, inflight, lastPicked,
                 failedFile, sinceInvoke, throttledSettings, rendered, playbackState,
                 lib>>

LoopChange(checked) ==
  /\ UserEvent
  /\ checked # rendered.loop
  /\ SetSettings(LoopUpdate(rendered, checked), "LoopChange")
  /\ UNCHANGED <<timer, waveformRef, waveformDep, waveform,
                 waveBlob, player, filterFrequency, chained, inflight, lastPicked,
                 failedFile, sinceInvoke, throttledSettings, rendered, playbackState,
                 lib>>

\* the toggle starts the player whatever its state
ToggleCall_AlwaysStarts(state) == "player.start(0)"

\* if (player.state === "started") player.stop() else player.start(0)
ToggleCall(state) == IF state = "started" THEN "player.stop" ELSE "player.start(0)"

\* the transport state a call leaves the player in
StateAfter(call, state) ==
  CASE call = "player.stop" -> "stopped"
    [] call \in {"player.start", "player.start(0)", "player.start(0, value)"} -> "started"
    [] OTHER -> state

\* The play button.  index.tsx also records what it displays: stopped at
\* position 0, or started at the reading of player.context.currentTime
\* (now); the later revision makes the same player calls and displays no
\* position.
handlePlayPauseToggle ==
  /\ UserEvent
  /\ ContainerRendered(settings)
  /\ LET call == ToggleCall(player.state) IN
       /\ player' = [player EXCEPT !.state = StateAfter(call, player.state)]
       \* twice: the step before this one was a toggle of a stopped player
       /\ last' = [Quiet("handlePlayPauseToggle") EXCEPT
                     !.calls = <<call>>,
                     !.twice = /\ last.op = "handlePlayPauseToggle"
                               /\ last.calls = <<"player.start(0)">>]
       /\ \E now \in ClockReadings :
            playbackState' = IF call = "player.stop"
                             THEN [state |-> "stopped", time |-> 0]
                             ELSE [state |-> "started", time |-> now]
  /\ UNCHANGED <<settings, throttledIsCurrent, timer, waveformRef,
                 waveformDep, waveform, waveBlob, filterFrequency, chained, inflight,
                 pending, lastPicked, failedFile, sinceInvoke, synced,
                 throttledSettings, rendered, lib, superseded>>

\* index.tsx: the seek slider, enabled once a file is loaded
\* (disabled={!settings.file}); onChange calls player.start(0, value)
SeekChange ==
  /\ UserEvent
  /\ settings.file # None
  /\ LET call == "player.start(0, value)" IN
       /\ player' = [player EXCEPT !.state = StateAfter(call, player.state)]
       /\ last' = [Quiet("SeekChange") EXCEPT !.calls = <<call>>]
  /\ UNCHANGED <<settings, throttledIsCurrent, timer, waveformRef,
                 waveformDep, waveform, waveBlob, filterFrequency, chained, inflight,
                 pending, lastPicked, failedFile, sinceInvoke, synced,
                 throttledSettings, rendered, playbackState, lib, superseded>>

\* ------------------------------------------------------------ load completion
\* the promise of the i-th suspended invocation settles; snap is the settings
\* record that invocation closed over
LoadSettles(i, resolved) ==
  /\ ~RenderPending
  /\ i \in 1..Len(inflight)
  /\ LET snap == inflight[i]
         \* a resolved load has replaced player.buffer
         loaded == IF resolved THEN [player EXCEPT !.buffer = snap.nextFile]
                   ELSE player
     IN
       /\ inflight' = RemoveAt(inflight, i)
       /\ superseded' = RemoveAt(IF Resumes(resolved)
                                  THEN SupersededByResume(superseded, inflight, i)
                                  ELSE superseded, i)
       /\ failedFile' = IF resolved THEN failedFile ELSE snap.nextFile
       \* stale: the invocation pushes the record it captured although the
       \* engine has received a later version since
       /\ last' = [Quiet(IF resolved THEN "LoadResolves" ELSE "LoadRejects") EXCEPT
                     !.snap = snap, !.calls = ResumeCalls(resolved),
                     !.stale = Resumes(resolved) /\ superseded[i]]
       /\ IF Resumes(resolved)
          THEN /\ player' = [loaded EXCEPT !.state = "started",
                                            !.playbackRate = snap.speed,
                                            !.loop = snap.loop]
               /\ filterFrequency' = snap.filterCutoff
               /\ settings' = mergeSettings(
                                LoadedUpdate(snap, BufferDuration(loaded.buffer)),
                                settings)
               /\ throttledIsCurrent' = FALSE
               /\ pending' = [pending EXCEPT !.settings = TRUE]
               /\ synced' = FALSE
               \* index.tsx: setPlaybackState({ state: "started", time: 0 })
               /\ playbackState' = [state |-> "started", time |-> 0]
          ELSE /\ player' = loaded
               /\ UNCHANGED <<filterFrequency, settings, throttledIsCurrent, pending,
                              synced, playbackState>>
       /\ UNCHANGED <<timer, waveformRef, waveformDep, waveform,
                      waveBlob, chained, userEvents, lastPicked, sinceInvoke,
                      throttledSettings, rendered, lib>>

LoadResolves == \E i \in 1..MaxInFlight + 1 : LoadSettles(i, TRUE)

LoadRejects == \E i \in 1..MaxInFlight + 1 : LoadSettles(i, FALSE)

\* ------------------------------------------------------------ specification
UserUpdate ==
  \/ \E f \in Files \cup {None} : handleFileChange(f)
  \/ \E v \in SpeedChoices : SpeedChange(v)
  \/ \E v \in SliderChoices : FilterChange(v)
  \/ \E b \in BOOLEAN : LoopChange(b)

Next ==
  \/ Render
  \/ TimerFire
  \/ Tick
  \/ UserUpdate
  \/ handlePlayPauseToggle
  \/ LoadResolves
  \/ LoadRejects

Spec == Init /\ [][Next]_vars

\* index.tsx, the revision of the page that has the seek slider
NextIndex ==
  \/ Next
  \/ SeekChange

IndexSpec == Init /\ [][NextIndex]_vars

\* ------------------------------------------------------------ lib.ts applied
page == <<settings, throttledIsCurrent, timer, waveformRef,
          waveformDep, waveform, waveBlob, player, filterFrequency, chained,
          inflight, userEvents, pending, last, lastPicked, failedFile, sinceInvoke,
          synced, throttledSettings, rendered, playbackState, superseded>>

\* the arguments: every whole frequency a up to FILTER_MAX, and a second
\* argument b a little above it
Gaps == 1..MaxGap

LibInit ==
  /\ InitPage
  /\ lib \in {[op |-> "input", a |-> a, b |-> a + g] : a \in 0..FILTER_MAX, g \in Gaps}

ApplyHumanFormat ==
  /\ lib.op = "input"
  /\ lib' = [op |-> "humanFormat", a |-> lib.a, out |-> humanFormat(lib.a)]
  /\ UNCHANGED page

ApplyGetScaleValue ==
  /\ lib.op = "input"
  /\ lib' = [op |-> "getScaleValue", a |-> lib.a, b |-> lib.b,
             out |-> getScaleValue(Number(lib.a)),
             outB |-> getScaleValue(Number(lib.b))]
  /\ UNCHANGED page

\* the result of getScaleValue is handed to getValueFromScale
ApplyGetValueFromScale ==
  /\ lib.op = "getScaleValue"
  /\ lib' = [op |-> "getValueFromScale", a |-> lib.a, out |-> getValueFromScale(lib.out)]
  /\ UNCHANGED page

LibNext ==
  \/ ApplyHumanFormat
  \/ ApplyGetScaleValue
  \/ ApplyGetValueFromScale

LibSpec == LibInit /\ [][LibNext]_vars

\* the page's timers fire, renders run, time passes and every decode ends
FairSpec ==
  /\ Spec
  /\ WF_vars(Render)
  /\ WF_vars(TimerFire)
  /\ WF_vars(Tick)
  /\ WF_vars(LoadResolves \/ LoadRejects)

\* ------------------------------------------------------------ properties
Has(calls, c) == \E i \in 1..Len(calls) : calls[i] = c

Before(calls, a, b) ==
  \E i, j \in 1..Len(calls) : i < j /\ calls[i] = a /\ calls[j] = b

\* nothing is scheduled: no re-render, no open throttle window, no load
Quiescent == ~RenderPending /\ timer = -1 /\ inflight = <<>>

\* the invocation recorded in l pushed its three parameters into the engine
Pushed(l) ==
  /\ Has(l.calls, "filter.set")
  /\ Has(l.calls, "player.set")
  /\ filterFrequency = l.snap.filterCutoff
  /\ player.playbackRate = l.snap.speed
  /\ player.loop = l.snap.loop

\* C1: at most one file load is in flight at any time: no invocation calls
\* player.load while the load of an earlier invocation is unsettled.
AtMostOneLoadInFlight == Len(inflight) <= 1

\* C2: the latest requested file wins: once every load has resolved and
\* nothing more is scheduled, Settings.file is the file picked last, nextFile
\* is absent and the engine holds that file's content.  (The conclusion can
\* only fail when a file was picked while a load was unsettled.)
LatestFileWins ==
  (Quiescent /\ lastPicked # None /\ failedFile = None)
    => /\ settings.file = lastPicked
       /\ settings.nextFile = None
       /\ player.buffer = lastPicked

\* C3: the lifecycle flag is one-way: no step takes Settings.state from
\* "ready" back to "init".
ReadyIsOneWay == [][settings.state = "ready" => settings'.state = "ready"]_vars

ReadyIsOneWay_Witness ==
  /\ settings.state = "ready"
  /\ last.op = "LoopChange"
  /\ inflight # <<>>

\* C4: player.chain is called exactly once, by the first invocation, and an
\* invocation that observes state "init" makes no other engine call and
\* requests state "ready".
AudioGraphWiredOnce ==
  /\ chained <= 1
  /\ ~pending.first => chained = 1
  /\ (last.invoked /\ last.snap.state = "init")
       => /\ last.calls = <<"player.chain">>
          /\ settings.state = "ready"
          /\ inflight = <<>>
          /\ player = [state |-> "stopped", buffer |-> None, playbackRate |-> 100,
                       loop |-> FALSE]

AudioGraphWiredOnce_Witness ==
  /\ last.invoked
  /\ last.snap.state = "init"
  /\ chained = 1

\* C5: in state "ready" an invocation that observes a pending nextFile stops
\* the player and then starts the load; when the load resolves the player is
\* started, and if Settings did not change in between, Settings then has file
\* equal to the picked file, nextFile absent and duration equal to the length
\* of the engine's buffer.
LoadThenPromote ==
  [][/\ (last'.invoked /\ last'.snap.state = "ready" /\ last'.snap.nextFile # None)
          => /\ Before(last'.calls, "player.stop", "player.load")
             /\ player'.state = "stopped"
             /\ inflight' = Append(inflight, last'.snap)
     /\ last'.op = "LoadResolves"
          => /\ Head(last'.calls) = "player.start"
             /\ player'.state = "started"
             /\ player'.buffer = last'.snap.nextFile
             /\ Closure(settings) = last'.snap
                  => /\ settings'.file = last'.snap.nextFile
                     /\ settings'.nextFile = None
                     /\ settings'.duration = BufferDuration(player'.buffer)
    ]_vars

LoadThenPromote_Witness ==
  /\ last.op = "LoadResolves"
  /\ settings.file = last.snap.nextFile
  /\ settings.nextFile = None
  /\ settings.duration = BufferDuration(player.buffer)
  /\ player.state = "started"

\* C6: every invocation made in state "ready" pushes filterCutoff, speed and
\* loop into the engine; checked in the state where the invocation has ended
\* (it returned, or the code after its await has run or been abandoned).
EveryReadyInvocationPushes ==
  /\ (last.invoked /\ last.snap.state = "ready" /\ last.snap.nextFile = None)
       => Pushed(last)
  /\ last.op \in {"LoadResolves", "LoadRejects"} => Pushed(last)

\* C7: the Synchronization Effect is invoked at most once per throttle
\* window: an invocation follows the previous one by a full window.
OneInvocationPerWindow ==
  last.invoked => (last.gap < 0 \/ last.gap >= WindowTicks)

\* C8: no final state is dropped: once the Settings updates have stopped, the
\* Synchronization Effect has been invoked with the final Settings record.
FinalSettingsObserved == <>[]synced

FinalSettingsObserved_Witness ==
  /\ synced
  /\ last.invoked
  /\ userEvents > 0
  /\ Closure(settings) = last.snap
  /\ settings.speed # InitialSettings.speed

\* C9: a failed load leaves Settings as it was (nextFile still the failed
\* file when nothing else changed it), and the invocation makes no start and
\* no parameter push after the failure.
FailedLoadChangesNothing ==
  [][last'.op = "LoadRejects"
       => /\ settings' = settings
          /\ player' = player
          /\ filterFrequency' = filterFrequency
          /\ last'.calls = <<>>
          /\ Closure(settings) = last'.snap
               => settings'.nextFile = last'.snap.nextFile
    ]_vars

FailedLoadChangesNothing_Witness ==
  /\ last.op = "LoadRejects"
  /\ settings.nextFile = last.snap.nextFile
  /\ settings.nextFile = failedFile

\* C10: a failed load is never retried automatically: while no file has been
\* picked since the failure, no invocation starts a load of the failed file.
NoAutomaticRetry ==
  ~(/\ last.invoked
    /\ last.snap.state = "ready"
    /\ failedFile # None
    /\ last.snap.nextFile = failedFile
    /\ Has(last.calls, "player.load"))

\* C11: a file-change event that carries no file fails with an error and
\* leaves Settings as it was (file and nextFile included); it schedules no
\* re-render and starts no load.
MissingFileChangesNothing ==
  [][(last'.op = "handleFileChange" /\ last'.arg = None)
       => /\ last'.threw
          /\ settings' = settings
          /\ pending' = pending
          /\ inflight' = inflight
          /\ player' = player
    ]_vars

MissingFileChangesNothing_Witness ==
  /\ last.op = "handleFileChange"
  /\ last.arg = None
  /\ last.threw
  /\ settings.nextFile # None
  /\ ~RenderPending

\* C12: Settings.filterCutoff is within [10, 22000] in every reachable state,
\* whatever position the Filter slider was dragged to.
FilterCutoffInRange ==
  /\ ~Less(settings.filterCutoff, Number(10))
  /\ ~Less(Number(FILTER_MAX), settings.filterCutoff)

\* C13: the toggle stops the player when it is started and otherwise starts
\* it from offset zero; a toggle that directly follows a toggle of a stopped
\* player leaves the player stopped and the displayed position at zero.
ToggleTwiceStops ==
  [][last'.op = "handlePlayPauseToggle"
       => /\ player.state = "started"
               => /\ last'.calls = <<"player.stop">>
                  /\ player'.state = "stopped"
          /\ player.state # "started"
               => /\ last'.calls = <<"player.start(0)">>
                  /\ player'.state = "started"
          /\ (last.op = "handlePlayPauseToggle" /\ last.calls = <<"player.start(0)">>)
               => /\ player'.state = "stopped"
                  /\ playbackState' = [state |-> "stopped", time |-> 0]
          /\ [player' EXCEPT !.state = player.state] = player
          /\ filterFrequency' = filterFrequency
          /\ settings' = settings
    ]_vars

ToggleTwiceStops_Witness ==
  /\ last.op = "handlePlayPauseToggle"
  /\ last.twice
  /\ last.calls = <<"player.stop">>
  /\ player.state = "stopped"
  /\ playbackState = [state |-> "stopped", time |-> 0]

\* the engine calls among the calls of a step
EngineCalls(calls) == SelectSeq(calls, LAMBDA c : c # "waveform.loadBlob")

\* C14: the engine is changed only by the Synchronization Effect and the
\* Playback Toggle: a step that calls into the player or the filter, or
\* changes their state, is an effect invocation, the resumption of one after
\* its load, or the toggle.
EngineOwnedByEffectAndToggle ==
  [][(\/ player' # player
      \/ filterFrequency' # filterFrequency
      \/ chained' # chained
      \/ EngineCalls(last'.calls) # <<>>)
       => \/ last'.op = "Render" /\ last'.invoked
          \/ last'.op \in {"LoadResolves", "LoadRejects"}
          \/ last'.op = "handlePlayPauseToggle"
    ]_vars

\* ------------------------------------------------------------ reading a text
IsDigit(c) == c \in {"0", "1", "2", "3", "4", "5", "6", "7", "8", "9"}

DigitValue(c) == CHOOSE d \in 0..9 : Digit(d) = c

AllDigits(t) == t # <<>> /\ \A i \in 1..Len(t) : IsDigit(t[i])

\* the whole number a text of digits denotes
RECURSIVE Value(_)
Value(t) ==
  IF t = <<>> THEN 0
  ELSE 10 * Value(SubSeq(t, 1, Len(t) - 1)) + DigitValue(t[Len(t)])

Distance(x, y) == IF x < y THEN y - x ELSE x - y

\* text is digits followed by "K": whole kilohertz
WholeKilo(t) == Len(t) >= 2 /\ t[Len(t)] = "K" /\ AllDigits(SubSeq(t, 1, Len(t) - 1))

\* text is digits, a point, one digit and "K"
OneDecimalKilo(t) ==
  /\ Len(t) >= 4
  /\ t[Len(t)] = "K"
  /\ IsDigit(t[Len(t) - 1])
  /\ t[Len(t) - 2] = "."
  /\ AllDigits(SubSeq(t, 1, Len(t) - 3))

\* the hertz a kilohertz text denotes
KiloHertz(t) ==
  IF OneDecimalKilo(t)
  THEN 1000 * Value(SubSeq(t, 1, Len(t) - 3)) + 100 * DigitValue(t[Len(t) - 1])
  ELSE 1000 * Value(SubSeq(t, 1, Len(t) - 1))

\* what the three cases of humanFormat have in common: the plain number up to
\* 999, whole kilohertz above 9999, and the three examples
HumanFormatCommon(v, out) ==
  /\ v <= 999 => out.type = "number" /\ AllDigits(out.text) /\ Value(out.text) = v
  /\ v > 9999 => /\ out.type = "string"
                 /\ WholeKilo(out.text)
                 /\ Distance(KiloHertz(out.text), v) <= 500
  /\ v = 500 => out = [type |-> "number", text |-> <<"5", "0", "0">>]
  /\ v = 1500 => out = [type |-> "string", text |-> <<"1", ".", "5", "K">>]
  /\ v = 12000 => out = [type |-> "string", text |-> <<"1", "2", "K">>]

ScaleRoundTrip ==
  (lib.op = "getValueFromScale" /\ 10 <= lib.a /\ lib.a <= FILTER_MAX)
    => lib.out = Number(lib.a)

ScaleRoundTrip_Witness ==
  /\ lib.op = "getValueFromScale"
  /\ lib.a = 1000
  /\ lib.out = Number(1000)

Others(s, k) == [f \in DOMAIN s \ {k} |-> s[f]]

\* C18: every user interaction (file pick, speed drag, filter drag, loop
\* toggle) is a merge onto the latest Settings record: it changes only its
\* own field, so every field an earlier update has changed (state "ready",
\* the cleared nextFile) keeps its value.
UserUpdateIsMerge ==
  [][/\ (last'.op = "handleFileChange" /\ ~last'.threw)
          => settings' = [settings EXCEPT !.nextFile = last'.arg]
     /\ last'.op = "SpeedChange" => Others(settings', "speed") = Others(settings, "speed")
     /\ last'.op = "FilterChange"
          => Others(settings', "filterCutoff") = Others(settings, "filterCutoff")
     /\ last'.op = "LoopChange" => Others(settings', "loop") = Others(settings, "loop")
    ]_vars

UserUpdateIsMerge_Witness ==
  /\ last.op = "LoopChange"
  /\ settings.loop # InitialSettings.loop
  /\ settings.state = "ready"
  /\ settings.file # None
  /\ settings.nextFile = None

\* C19: the merge issued when a load completes changes only file, nextFile
\* and duration: filterCutoff, speed, loop and state keep the values of the
\* latest Settings record, also when they were changed while the load was
\* in flight.
LoadedMergeKeepsTheRest ==
  [][last'.op = "LoadResolves"
       => /\ settings'.filterCutoff = settings.filterCutoff
          /\ settings'.speed = settings.speed
          /\ settings'.loop = settings.loop
          /\ settings'.state = settings.state
          /\ settings'.file = last'.snap.nextFile
          /\ settings'.nextFile = None
    ]_vars

LoadedMergeKeepsTheRest_Witness ==
  /\ last.op = "LoadResolves"
  /\ settings.speed # last.snap.speed
  /\ settings.file = last.snap.nextFile

\* C20: each invocation acts on the throttled copy: the state, nextFile,
\* filterCutoff, speed and loop it uses are those of throttledSettings at the
\* moment it runs, never those of a newer Settings record.
ActsOnThrottledCopy ==
  last.invoked => last.snap = Closure(throttledSettings)

\* the three parameters the engine holds
EngineParameters == <<filterFrequency, player.playbackRate, player.loop>>

\* C21: parameter pushes never go backwards: once the engine has received
\* the filterCutoff, speed and loop of some Settings version, no later push
\* installs the values of an older version.  The only push that can come
\* from an older version is the one an invocation makes after its load
\* await, with the record it captured before it (last.stale); such a push
\* leaves the engine's parameters as they were.
PushesNeverGoBackwards ==
  [][last'.stale => EngineParameters' = EngineParameters]_vars

\* C22: nextFile is cleared only by the completion of a load of that same
\* file: a step that takes a pending nextFile away is either a new file pick
\* or the resolution of a load of that very file, so the completion of A's
\* load never clears or replaces a pending B picked while A was loading.
NextFileClearedByItsOwnLoad ==
  [][(settings.nextFile # None /\ settings'.nextFile # settings.nextFile)
       => \/ last'.op = "handleFileChange"
          \/ last'.op = "LoadResolves" /\ last'.snap.nextFile = settings.nextFile]_vars

====
